---- MODULE Spec2Model ----
(***************************************************************************)
(* A model of the dbf Reader (package dbf).  The repository holds three    *)
(* generations of the reader; the one modelled as the program's state      *)
(* machine is the latest, src/unnamed/part_001 lines 247-703, which has    *)
(* the field catalog with read-inclusion flags and filters.  Where the     *)
(* reader of src/dbf.go decodes differently (dates), its decoding is       *)
(* modelled beside it as DateValueDbf.                                     *)
(*                                                                         *)
(* Bytes are the integers 0..255, a Go string or []byte is a sequence of   *)
(* bytes, and the byte source (an io.ReadSeeker over an in-memory or       *)
(* on-disk file) is the byte sequence `file` with the position `src.pos`.  *)
(***************************************************************************)
EXTENDS Integers, Sequences, FiniteSets, TLC

(***************************************************************************)
(* Bounds of the model.                                                    *)
(***************************************************************************)
\* Read is called with the record indices -1 .. MaxIndex.
MaxIndex == 2
\* The number of concurrent callers of Read in SpecConc.
NumProcs == 2

(***************************************************************************)
(* Program constants.                                                      *)
(***************************************************************************)
FlagDateAssql == 1
FlagSkipWeird == 2
FlagSkipDeleted == 4
FlagEmptyDateAsZero == 8
\* bufio.NewReader's default buffer: NewReader's ReadByte fills it from r.
BufioSize == 4096

\* flags & bit # 0, for a one-bit mask
HasFlag(flags, bit) == (flags \div bit) % 2 = 1

(***************************************************************************)
(* Byte strings.                                                           *)
(***************************************************************************)
\* Body of v, with v worked out once (the := of the code)
Let(v, Body(_)) == Body(v)

Max(a, b) == IF a >= b THEN a ELSE b
Min(a, b) == IF a <= b THEN a ELSE b

IsDigit(b) == b >= 48 /\ b <= 57

\* unicode.IsSpace on the bytes of an ASCII string
IsSpace(b) == b \in {9, 10, 11, 12, 13, 32}

RECURSIVE TrimLeft(_)
TrimLeft(s) ==
    IF s # <<>> /\ IsSpace(Head(s)) THEN TrimLeft(Tail(s)) ELSE s

RECURSIVE TrimRight(_)
TrimRight(s) ==
    IF s # <<>> /\ IsSpace(s[Len(s)])
    THEN TrimRight(SubSeq(s, 1, Len(s) - 1)) ELSE s

\* strings.TrimSpace
TrimSpace(s) == TrimRight(TrimLeft(s))

\* strings.Repeat(" ", n)
Spaces(n) == [k \in 1..n |-> 32]

\* The value of a string of decimal digits (0 for the empty string).
RECURSIVE DigitsValue(_)
DigitsValue(s) ==
    IF s = <<>> THEN 0
    ELSE 10 * DigitsValue(SubSeq(s, 1, Len(s) - 1)) + (s[Len(s)] - 48)

AllDigits(s) == \A k \in 1..Len(s) : IsDigit(s[k])

\* strconv.Atoi: an optional sign, then one or more decimal digits.
Atoi(s) ==
    LET signed == s # <<>> /\ s[1] \in {43, 45}
        digits == IF signed THEN Tail(s) ELSE s
    IN  IF digits = <<>> \/ ~AllDigits(digits)
        THEN [ok |-> FALSE, v |-> 0]
        ELSE [ok |-> TRUE,
              v  |-> IF signed /\ s[1] = 45 THEN 0 - DigitsValue(digits)
                     ELSE DigitsValue(digits)]

\* The index of the first '.' of s, or 0.
RECURSIVE DotAt(_, _)
DotAt(s, k) ==
    IF k > Len(s) THEN 0 ELSE IF s[k] = 46 THEN k ELSE DotAt(s, k + 1)

\* Drop the trailing zeros of a decimal fraction <<numerator, digits>>.
RECURSIVE NormFrac(_, _)
NormFrac(n, k) ==
    IF k > 0 /\ n % 10 = 0 THEN NormFrac(n \div 10, k - 1) ELSE <<n, k>>

RECURSIVE Pow10(_)
Pow10(k) == IF k = 0 THEN 1 ELSE 10 * Pow10(k - 1)

\* strconv.ParseFloat(s, 64) on plain decimal text: [sign] digits [. digits]
\* with a digit on at least one side of the point.  The value is kept as
\* <<sign * numerator, number of fraction digits>>, trailing zeros dropped.
\* Exponents, hex floats, "inf" and "nan" are not in the model's inputs.
ParseFloat(s) ==
    LET signed == s # <<>> /\ s[1] \in {43, 45}
        body   == IF signed THEN Tail(s) ELSE s
        dot    == DotAt(body, 1)
        ip     == IF dot = 0 THEN body ELSE SubSeq(body, 1, dot - 1)
        fp     == IF dot = 0 THEN <<>> ELSE SubSeq(body, dot + 1, Len(body))
        mag    == NormFrac(DigitsValue(ip) * Pow10(Len(fp)) + DigitsValue(fp),
                           Len(fp))
    IN  IF (ip = <<>> /\ fp = <<>>) \/ ~AllDigits(ip) \/ ~AllDigits(fp)
        THEN [ok |-> FALSE, v |-> <<0, 0>>]
        ELSE [ok |-> TRUE,
              v  |-> IF signed /\ s[1] = 45 THEN <<0 - mag[1], mag[2]>>
                     ELSE mag]

\* The days of a month (package time's daysIn).
IsLeap(y) == y % 4 = 0 /\ (y % 100 # 0 \/ y % 400 = 0)

DaysIn(m, y) ==
    IF m = 2 THEN (IF IsLeap(y) THEN 29 ELSE 28)
    ELSE IF m \in {4, 6, 9, 11} THEN 30 ELSE 31

\* The calendar check time.Parse ends with, on year, month and day digits.
ParseYMD(ys, ms, ds) ==
    LET y == DigitsValue(ys)
        m == DigitsValue(ms)
        d == DigitsValue(ds)
    IN  IF AllDigits(ys) /\ AllDigits(ms) /\ AllDigits(ds)
           /\ m >= 1 /\ m <= 12 /\ d >= 1 /\ d <= DaysIn(m, y)
        THEN [ok |-> TRUE, v |-> <<y, m, d>>]
        ELSE [ok |-> FALSE, v |-> <<>>]

\* time.Parse("20060102", s): exactly eight digits naming a calendar day.
ParseDate8(s) ==
    IF Len(s) # 8 THEN [ok |-> FALSE, v |-> <<>>]
    ELSE ParseYMD(SubSeq(s, 1, 4), SubSeq(s, 5, 6), SubSeq(s, 7, 8))

\* time.Parse("2006-01-02", s)
ParseDateISO(s) ==
    IF Len(s) # 10 \/ s[5] # 45 \/ s[8] # 45 THEN [ok |-> FALSE, v |-> <<>>]
    ELSE ParseYMD(SubSeq(s, 1, 4), SubSeq(s, 6, 7), SubSeq(s, 9, 10))

\* n as w decimal digits, zero padded
RECURSIVE Dec(_, _)
Dec(n, w) == IF w = 0 THEN <<>> ELSE Dec(n \div 10, w - 1) \o <<48 + (n % 10)>>

\* tm.Format("2006-01-02")
FormatISO(ymd) == Dec(ymd[1], 4) \o <<45>> \o Dec(ymd[2], 2) \o <<45>> \o Dec(ymd[3], 2)

\* Time.Before, Time.After on days
DateBefore(a, b) ==
    \/ a[1] < b[1]
    \/ a[1] = b[1] /\ a[2] < b[2]
    \/ a[1] = b[1] /\ a[2] = b[2] /\ a[3] < b[3]

DateAfter(a, b) == DateBefore(b, a)

\* n as w bytes, little endian (n >= 0)
RECURSIVE LE(_, _)
LE(n, w) == IF w = 0 THEN <<>> ELSE <<n % 256>> \o LE(n \div 256, w - 1)

\* binary.Read of a little-endian unsigned field of w bytes (the header's
\* Nrec, Headerlen, Recordlen); the model's headers keep Nrec below 2^31.
RECURSIVE LEValue(_, _)
LEValue(b, w) == IF w = 0 THEN 0 ELSE b[1] + 256 * LEValue(Tail(b), w - 1)

\* int32(binary.LittleEndian.Uint32(b)): the top byte carries the sign.
Int32LE(b) ==
    b[1] + 256 * b[2] + 65536 * b[3]
      + 16777216 * (IF b[4] >= 128 THEN b[4] - 256 ELSE b[4])

Zeros(n) == [k \in 1..n |-> 0]

(***************************************************************************)
(* The byte source: an io.ReadSeeker over the bytes of the file.  A source *)
(* state is [pos, hi]: the position, and the highest offset a seek went to *)
(* or a read delivered bytes up to (kept to state what a call touched).    *)
(***************************************************************************)
\* r.Seek(off, io.SeekStart): a negative offset is an error, any other
\* offset (also one past the end) becomes the position.
Seek(s, off) ==
    IF off < 0 THEN [ok |-> FALSE, s |-> s]
    ELSE [ok |-> TRUE, s |-> [pos |-> off, hi |-> Max(s.hi, off)]]

\* io.ReadFull(r, buf) with len(buf) = n: n bytes or an error; no byte is
\* asked for when n = 0.
ReadFull(bytes, s, n) ==
    IF n = 0 THEN [err |-> "", buf |-> <<>>, s |-> s]
    ELSE IF s.pos >= Len(bytes) THEN [err |-> "io.EOF", buf |-> <<>>, s |-> s]
    ELSE IF s.pos + n > Len(bytes)
    THEN [err |-> "io.ErrUnexpectedEOF", buf |-> <<>>,
          s |-> [pos |-> Len(bytes), hi |-> Max(s.hi, Len(bytes))]]
    ELSE [err |-> "", buf |-> SubSeq(bytes, s.pos + 1, s.pos + n),
          s |-> [pos |-> s.pos + n, hi |-> Max(s.hi, s.pos + n)]]

(***************************************************************************)
(* Decoded values: [t, v], t the Go dynamic type and v the value's         *)
(* numbers (a string's bytes, an integer, a date's <<year, month, day>>).  *)
(***************************************************************************)
StringV(s) == [t |-> "string", v |-> s]
IntV(n) == [t |-> "int", v |-> <<n>>]
Int32V(n) == [t |-> "int32", v |-> <<n>>]
FloatV(x) == [t |-> "float64", v |-> x]
TimeV(ymd) == [t |-> "time.Time", v |-> ymd]
NilV == [t |-> "nil", v |-> <<>>]

\* Tillzero / the loop of FieldName: the bytes before the first 0
RECURSIVE Tillzero(_)
Tillzero(s) ==
    IF s = <<>> \/ Head(s) = 0 THEN <<>> ELSE <<Head(s)>> \o Tillzero(Tail(s))

\* r.FieldName(i), on the catalog entry itself
FieldName(field) == Tillzero(field.Field.Name)

\* Field.validate: the type is one of 'C', 'N', 'F', 'L', 'D', 'I'
Validate(f) == f.Type \in {67, 78, 70, 76, 68, 73}

\* One value's decoding: [err, val].  err is "" or the kind of failure.
getFieldValueCasting(f, buf) ==
    LET fieldVal == TrimSpace(buf)
        Ok(v)    == [err |-> "", val |-> v]
        Fail(e)  == [err |-> e, val |-> NilV]
    IN  CASE f.Type = 70 ->
               Let(ParseFloat(fieldVal), LAMBDA p :
                   IF p.ok THEN Ok(FloatV(p.v)) ELSE Fail("DecodeError"))
          [] f.Type = 73 ->
               \* Uint32 indexes buf[3]: a shorter span is a run-time panic
               IF Len(buf) < 4 THEN Fail("panic") ELSE Ok(Int32V(Int32LE(buf)))
          [] f.Type = 78 ->
               IF fieldVal = <<>> THEN Ok(IntV(0))
               ELSE IF f.DecimalPlaces = 0
               THEN Let(Atoi(fieldVal), LAMBDA a :
                        IF a.ok THEN Ok(IntV(a.v)) ELSE Fail("DecodeError"))
               ELSE Let(ParseFloat(fieldVal), LAMBDA p :
                        IF p.ok THEN Ok(FloatV(p.v)) ELSE Fail("DecodeError"))
          [] f.Type = 76 ->
               IF fieldVal \in {<<89>>, <<84>>} THEN Ok(Int32V(84))
               ELSE IF fieldVal \in {<<78>>, <<70>>} THEN Ok(Int32V(70))
               ELSE IF fieldVal \in {<<63>>, <<>>} THEN Ok(Int32V(32))
               ELSE Fail("DecodeError")
          [] f.Type = 68 ->
               IF buf = Spaces(8) THEN Ok(NilV)
               ELSE Let(ParseDate8(fieldVal), LAMBDA d :
                        IF d.ok THEN Ok(TimeV(d.v)) ELSE Fail("DecodeError"))
          [] OTHER -> Ok(StringV(fieldVal))

\* The comparisons of filterValue on a decoded value c: [filtered, err].
\* after and before are the operators that select Time.After and Time.Before.
FilterDecoded(c, cond, lit, after, before) ==
    LET Is(b)  == [filtered |-> b, err |-> ""]
        Bad    == [filtered |-> FALSE, err |-> "FilterError"]
    IN  IF c.err # "" THEN [filtered |-> FALSE, err |-> c.err]
        ELSE CASE c.val.t = "string" ->
                    IF cond = "=" THEN Is(c.val.v = lit) ELSE Bad
               [] c.val.t = "time.Time" ->
                    Let(ParseDateISO(lit), LAMBDA d :
                        IF ~d.ok THEN Bad
                        ELSE IF cond = "=" THEN Is(c.val.v = d.v)
                        ELSE IF cond = after THEN Is(DateAfter(c.val.v, d.v))
                        ELSE IF cond = before THEN Is(DateBefore(c.val.v, d.v))
                        ELSE Bad)
               [] c.val.t = "int" ->
                    Let(Atoi(lit), LAMBDA a :
                        IF ~a.ok THEN Bad
                        ELSE IF cond = "=" THEN Is(c.val.v[1] = a.v)
                        ELSE IF cond = ">" THEN Is(c.val.v[1] > a.v)
                        ELSE IF cond = "<" THEN Is(c.val.v[1] < a.v)
                        ELSE Bad)
               [] OTHER -> Bad

\* filterValue with the date comparisons ">" and "<" exchanged.
filterValueDatesSwapped(filteredField, buf) ==
    FilterDecoded(getFieldValueCasting(filteredField.Field, buf),
                  filteredField.Filter.Condition, filteredField.Filter.Value,
                  "<", ">")

\* filterValue: [filtered, err]
filterValue(filteredField, buf) ==
    FilterDecoded(getFieldValueCasting(filteredField.Field, buf),
                  filteredField.Filter.Condition, filteredField.Filter.Value,
                  ">", "<")

\* The date case of the Read of src/dbf.go, which decodes in place and
\* consults the flags: [err, val]
DateValueDbf(fl, buf) ==
    LET fieldVal == TrimSpace(buf)
        tm       == ParseDate8(fieldVal)
    IN  IF ~tm.ok
        THEN IF fieldVal = <<>>
             THEN IF HasFlag(fl, FlagDateAssql)
                  THEN IF HasFlag(fl, FlagEmptyDateAsZero)
                       THEN [err |-> "", val |-> StringV(<<48, 48, 48, 48, 45, 48, 48, 45, 48, 48>>)]
                       ELSE [err |-> "", val |-> StringV(<<>>)]
                  ELSE [err |-> "", val |-> TimeV(<<1, 1, 1>>)]
             ELSE [err |-> "DecodeError", val |-> NilV]
        ELSE IF HasFlag(fl, FlagDateAssql)
             THEN [err |-> "", val |-> StringV(FormatISO(tm.v))]
             ELSE [err |-> "", val |-> TimeV(tm.v)]

(***************************************************************************)
(* Read, step by step.  A Record is a function from field names to values; *)
(* an outcome is [kind, rec]: kind "Record" with the record, "NoValue"     *)
(* (nil, nil), or the kind of the error returned (rec empty).              *)
(***************************************************************************)
EmptyRecord == <<>>

\* rec[name] = v
Put(rec, name, v) ==
    [x \in (DOMAIN rec) \cup {name} |-> IF x = name THEN v ELSE rec[x]]

Outcome(kind, rec) == [kind |-> kind, rec |-> rec]

\* A seek relative to the current position instead of the start.
SeekStepRelative(headerlen, recordlen, s, i) ==
    Let(Seek(s, s.pos + headerlen + recordlen * i), LAMBDA sk :
        [ok |-> sk.ok, s |-> sk.s, offset |-> headerlen + recordlen * i])

\* offset := headerlen + recordlen*i and the seek to it: [ok, s, offset]
SeekStep(headerlen, recordlen, s, i) ==
    Let(Seek(s, headerlen + recordlen * i), LAMBDA sk :
        [ok |-> sk.ok, s |-> sk.s, offset |-> headerlen + recordlen * i])

\* The chain of tests on the marker byte read, skipWeird and skipDeleted
\* the two flag tests: [kind, s]
MarkerRead(r, skipWeird, skipDeleted) ==
    IF r.err # "" THEN [kind |-> r.err, s |-> r.s]
    ELSE IF r.buf[1] = 26
    THEN [kind |-> IF skipWeird THEN "SkipError" ELSE "EOFError", s |-> r.s]
    ELSE IF r.buf[1] = 42
    THEN [kind |-> IF skipDeleted THEN "SkipError" ELSE "DELETEDError", s |-> r.s]
    ELSE IF r.buf[1] # 32 THEN [kind |-> "FormatError", s |-> r.s]
    ELSE [kind |-> "", s |-> r.s]

\* MarkerStep with the 0x1A branch testing FlagSkipDeleted.
MarkerStepOneFlag(bytes, flags, s) ==
    MarkerRead(ReadFull(bytes, s, 1),
               HasFlag(flags, FlagSkipDeleted), HasFlag(flags, FlagSkipDeleted))

\* The deletion marker: [kind, s], kind "" for a live record.
MarkerStep(bytes, flags, s) ==
    MarkerRead(ReadFull(bytes, s, 1),
               HasFlag(flags, FlagSkipWeird), HasFlag(flags, FlagSkipDeleted))

\* What one turn of the loop hands on: [kind, s, offset, rec], kind "" to go
\* on to the next field.
Stop(kind, s, offset) == [kind |-> kind, s |-> s, offset |-> offset, rec |-> EmptyRecord]
Go(s, offset, rec) == [kind |-> "", s |-> s, offset |-> offset, rec |-> rec]

\* The turn for a field that is read, after the io.ReadFull r of its span:
\* the filter, then the decoding of an included field.
FieldRead(field, r, off2, rec) ==
    IF r.err # "" THEN Stop(r.err, r.s, off2)
    ELSE Let(IF field.Filter.Value # <<>>
             THEN filterValue(field, r.buf)
             ELSE [filtered |-> TRUE, err |-> ""], LAMBDA flt :
         IF flt.err # "" THEN Stop(flt.err, r.s, off2)
         ELSE IF ~flt.filtered THEN Stop("NoValue", r.s, off2)
         ELSE IF field.Read
         THEN Let(getFieldValueCasting(field.Field, r.buf), LAMBDA c :
                  IF c.err # "" THEN Stop(c.err, r.s, off2)
                  ELSE Go(r.s, off2, Put(rec, FieldName(field), c.val)))
         ELSE Go(r.s, off2, rec))

\* The turn for a field that is skipped: the seek past its span.
FieldSkip(s, off2, rec) ==
    Let(Seek(s, off2), LAMBDA sk :
        IF ~sk.ok THEN Stop("SeekError", s, off2) ELSE Go(sk.s, off2, rec))

\* FieldStep without the seek past an excluded field.
FieldStepNoSkip(bytes, field, s, offset, rec) ==
    IF field.Read \/ field.Filter.Value # <<>>
    THEN FieldRead(field, ReadFull(bytes, s, field.Field.Len),
                   offset + field.Field.Len, rec)
    ELSE Go(s, offset + field.Field.Len, rec)

\* FieldStep with the filter of an excluded field left unevaluated.
FieldStepNoHiddenFilter(bytes, field, s, offset, rec) ==
    IF field.Read
    THEN FieldRead(field, ReadFull(bytes, s, field.Field.Len),
                   offset + field.Field.Len, rec)
    ELSE FieldSkip(s, offset + field.Field.Len, rec)

\* One turn of the loop over r.fields: [kind, s, offset, rec]
FieldStep(bytes, field, s, offset, rec) ==
    IF field.Read \/ field.Filter.Value # <<>>
    THEN FieldRead(field, ReadFull(bytes, s, field.Field.Len),
                   offset + field.Field.Len, rec)
    ELSE FieldSkip(s, offset + field.Field.Len, rec)

\* The loop over r.fields from field k on: [out, s]
RECURSIVE ReadFields(_, _, _, _, _, _)
ReadFields(bytes, fields, s, offset, k, rec) ==
    IF k > Len(fields) THEN [out |-> Outcome("Record", rec), s |-> s]
    ELSE Let(FieldStep(bytes, fields[k], s, offset, rec), LAMBDA st :
             IF st.kind # "" THEN [out |-> Outcome(st.kind, EmptyRecord), s |-> st.s]
             ELSE ReadFields(bytes, fields, st.s, st.offset, k + 1, st.rec))

\* Read(i) between Lock and Unlock: [out, s]
ReadCall(bytes, fields, flags, hl, rl, s, i) ==
    Let(SeekStep(hl, rl, s, i), LAMBDA sk :
        IF ~sk.ok THEN [out |-> Outcome("SeekError", EmptyRecord), s |-> sk.s]
        ELSE Let(MarkerStep(bytes, flags, sk.s), LAMBDA m :
                 IF m.kind # ""
                 THEN [out |-> Outcome(m.kind, EmptyRecord), s |-> m.s]
                 ELSE ReadFields(bytes, fields, m.s, sk.offset + 1, 1, EmptyRecord)))

(***************************************************************************)
(* NewReader: the header, the descriptor table, the terminator.            *)
(***************************************************************************)
\* binary.Read of one 32-byte Field
DecodeField(b) ==
    [Name          |-> SubSeq(b, 1, 11),
     Type          |-> b[12],
     Offset        |-> LEValue(SubSeq(b, 13, 16), 4),
     Len           |-> b[17],
     DecimalPlaces |-> b[18]]

\* The descriptor loop with n slots left, from offset p: [err, fields, pos]
RECURSIVE ParseFields(_, _, _, _)
ParseFields(bytes, p, n, acc) ==
    IF n = 0 THEN [err |-> "", fields |-> acc, pos |-> p]
    ELSE IF p + 32 > Len(bytes)
    THEN [err |-> "io", fields |-> acc, pos |-> Min(Max(p, Len(bytes)), Len(bytes))]
    ELSE LET f == DecodeField(SubSeq(bytes, p + 1, p + 32))
         IN  IF f.Name[2] = 13 THEN [err |-> "", fields |-> acc, pos |-> p + 32]
             ELSE IF ~Validate(f) THEN [err |-> "FormatError", fields |-> acc, pos |-> p + 32]
             ELSE ParseFields(bytes, p + 32, n - 1, Append(acc, f))

\* NewReader(r): [err, fields, headerlen, recordlen, Length, eohAt, pos];
\* eohAt is the offset of the byte compared with 0x0D, pos the position the
\* source is left at (bufio has read ahead).
NewReader(bytes) ==
    LET Failed(e) == [err |-> e, fields |-> <<>>, headerlen |-> 0,
                      recordlen |-> 0, Length |-> 0, eohAt |-> 0, pos |-> 0]
    IN  IF Len(bytes) < 12 THEN Failed("io")
        ELSE IF bytes[1] # 3 THEN Failed("FormatError")
        ELSE
          LET Nrec      == LEValue(SubSeq(bytes, 5, 8), 4)
              Headerlen == LEValue(SubSeq(bytes, 9, 10), 2)
              Recordlen == LEValue(SubSeq(bytes, 11, 12), 2)
              \* uint16 arithmetic: Headerlen/32 - 1 wraps below zero
              nfields   == ((Headerlen \div 32) + 65535) % 65536
          IN  Let(ParseFields(bytes, 32, nfields, <<>>), LAMBDA pf :
              IF pf.err # "" THEN Failed(pf.err)
              ELSE IF pf.pos >= Len(bytes) THEN Failed("io")
              ELSE IF bytes[pf.pos + 1] # 13 THEN Failed("FormatError")
              ELSE [err       |-> "",
                    fields    |-> [k \in 1..Len(pf.fields) |->
                                     [Filter |-> [Condition |-> "", Value |-> <<>>],
                                      Read   |-> TRUE,
                                      Field  |-> pf.fields[k]]],
                    headerlen |-> Headerlen,
                    recordlen |-> Recordlen,
                    Length    |-> Nrec,
                    eohAt     |-> pf.pos,
                    pos       |-> Min(Len(bytes), pf.pos + BufioSize)])

(***************************************************************************)
(* The tables the model opens.  Header and Descriptor lay the bytes out as *)
(* the structs header and Field are read.                                  *)
(***************************************************************************)
Header(nrec, hlen, rlen) ==
    <<3, 123, 1, 15>> \o LE(nrec, 4) \o LE(hlen, 2) \o LE(rlen, 2) \o Zeros(20)

Descriptor(name, type, len, dec) ==
    name \o Zeros(11 - Len(name)) \o <<type>> \o Zeros(4) \o <<len, dec>> \o Zeros(14)

NAME == <<78, 65, 77, 69>>
QTY == <<81, 84, 89>>
ID == <<73, 68>>
DOB == <<68, 79, 66>>
NUM == <<78, 85, 77>>
ZZ == <<90, 90>>

\* NAME C(2), QTY N(2,0); three records: live ("ab", "42"), deleted, and
\* live with a QTY that is no number ("cd", "x9").
FileText ==
    Header(3, 97, 5) \o Descriptor(NAME, 67, 2, 0) \o Descriptor(QTY, 78, 2, 0)
      \o <<13>>
      \o <<32, 97, 98, 52, 50>>
      \o <<42, 99, 100, 32, 53>>
      \o <<32, 99, 100, 120, 57>>

\* ID I(4), DOB D(8); three live records: (42, 2023-01-15), (-3, empty
\* date), (7, 2019-12-31).
FileTyped ==
    Header(3, 97, 13) \o Descriptor(ID, 73, 4, 0) \o Descriptor(DOB, 68, 8, 0)
      \o <<13>>
      \o <<32>> \o LE(42, 4) \o Dec(20230115, 8)
      \o <<32>> \o <<253, 255, 255, 255>> \o Spaces(8)
      \o <<32>> \o LE(7, 4) \o Dec(20191231, 8)

\* QTY N(2,0) in a table whose header declares two records of 2 bytes, less
\* than the 1 + 2 bytes a record takes; six bytes follow the header.
FileShort ==
    Header(2, 65, 2) \o Descriptor(QTY, 78, 2, 0) \o <<13>>
      \o <<32, 52, 32, 55, 32, 120>>

\* NUM I(4) in records of 66 bytes, more than the header's 65: a live record
\* (42) and one whose marker is 0x1A.
FileWide ==
    Header(2, 65, 66) \o Descriptor(NUM, 73, 4, 0) \o <<13>>
      \o <<32>> \o LE(42, 4) \o Zeros(61)
      \o <<26>> \o LE(7, 4)

\* Two descriptors named QTY, the first N(2,0) and the second C(2); two live
\* records: (7, "ab") and (42, "cd").
FileDup ==
    Header(2, 97, 5) \o Descriptor(QTY, 78, 2, 0) \o Descriptor(QTY, 67, 2, 0)
      \o <<13>>
      \o <<32, 32, 55, 97, 98>>
      \o <<32, 52, 50, 99, 100>>

Files == {FileText, FileTyped, FileShort, FileWide, FileDup}

Indices == (0 - 1)..MaxIndex

FlagValues == 0..15

Filter(cond, value) == [Condition |-> cond, Value |-> value]

NoFilter == Filter("", <<>>)

D20200101 == Dec(2020, 4) \o <<45>> \o Dec(1, 2) \o <<45>> \o Dec(1, 2)
D20230115 == Dec(2023, 4) \o <<45>> \o Dec(1, 2) \o <<45>> \o Dec(15, 2)

\* The maps SetFilter is called with.
FilterMaps ==
    { (QTY :> Filter("=", <<52, 50>>)),
      (QTY :> Filter(">", <<53>>)),
      (QTY :> Filter("<", <<52, 50>>)),
      (NAME :> Filter("=", <<97, 98>>)),
      (NAME :> Filter("=", <<97, 98>>)) @@ (QTY :> Filter(">", <<53>>)),
      (NUM :> Filter("=", <<52, 50>>)),
      (NUM :> Filter("=", <<>>)),
      (DOB :> Filter(">", D20200101)),
      (DOB :> Filter("<", D20200101)),
      (DOB :> Filter("=", D20230115)),
      (DOB :> Filter(">", <<50, 48, 50, 48, 45, 49, 45, 49>>)),
      (DOB :> Filter("!=", D20200101)),
      (ZZ :> Filter("=", <<52, 50>>)) }

\* The lists SetReadFields is called with.
ReadFieldLists ==
    { <<>>, <<NAME>>, <<QTY>>, <<QTY, NAME>>, <<ID>>, <<DOB>>, <<ID, DOB>>,
      <<ZZ, NUM>> }

(***************************************************************************)
(* The Reader and its byte source.                                         *)
(***************************************************************************)
VARIABLES
    file,       \* the bytes behind r.r
    src,        \* r.r's position, and what the last call touched
    fields,     \* r.fields
    flags,      \* r.flags
    headerlen,  \* r.headerlen
    recordlen,  \* r.recordlen
    Length,     \* r.Length
    ret,        \* the last operation and what it returned
    memo,       \* history: one earlier Read(i) and its outcome, kept while
                \* no SetFlags, SetReadFields or SetFilter is called
    mutex,      \* r.Mutex: TRUE while locked
    pc,         \* of each goroutine calling Read: where in Read it stands
    frame,      \* of each goroutine calling Read: i, offset, the loop's
                \* position, rec and the value about to be returned
    calls       \* history: the list of the last SetReadFields call, and for
                \* each name the Filter last given for it to SetFilter

vars == <<file, src, fields, flags, headerlen, recordlen, Length, ret, memo,
          mutex, pc, frame, calls>>

\* The goroutines that call Read on the one Reader
Procs == 1..NumProcs

conc == <<mutex, pc, frame>>

NoFrame == [i |-> 0, offset |-> 0, k |-> 0, rec |-> EmptyRecord,
            out |-> Outcome("", EmptyRecord)]

NoOutcome == Outcome("", EmptyRecord)

Ret(op, i, out, orec) == [op |-> op, i |-> i, out |-> out, orec |-> orec]

\* later counts the Read and ReadOrdered calls made since the noted one (2 for
\* two or more).
\* set tells whether SetReadFields was called at all.
NoCalls == [set |-> FALSE, readFields |-> <<>>, filters |-> <<>>]

NoMemo == [set |-> FALSE, i |-> 0, out |-> NoOutcome, later |-> 0]

Later(m) == IF m.set THEN [m EXCEPT !.later = Min(2, m.later + 1)] ELSE m

Init ==
    /\ file \in Files
    /\ \E rd \in {NewReader(file)} :
           /\ rd.err = ""
           /\ fields = rd.fields
           /\ headerlen = rd.headerlen
           /\ recordlen = rd.recordlen
           /\ Length = rd.Length
           /\ src = [pos |-> rd.pos, hi |-> 0]
    /\ flags = 0
    /\ ret = Ret("NewReader", 0, NoOutcome, <<>>)
    /\ memo = NoMemo
    /\ calls = NoCalls
    /\ mutex = FALSE
    /\ pc = [p \in Procs |-> "idle"]
    /\ frame = [p \in Procs |-> NoFrame]

\* SetFlags(f): returns the previous flags
SetFlags(f) ==
    /\ flags' = f
    /\ src' = [src EXCEPT !.hi = 0]
    /\ ret' = Ret("SetFlags", 0, NoOutcome, <<>>)
    /\ memo' = NoMemo
    /\ UNCHANGED <<file, fields, headerlen, recordlen, Length, conc, calls>>

\* SetReadFields that includes the named fields and excludes none.
SetReadFieldsAdding(fs, readFields) ==
    [k \in 1..Len(fs) |->
        [fs[k] EXCEPT !.Read =
            \/ fs[k].Read
            \/ \E n \in 1..Len(readFields) : readFields[n] = FieldName(fs[k])]]

\* The catalog after SetReadFields(readFields)
SetReadFieldsOf(fs, readFields) ==
    [k \in 1..Len(fs) |->
        [fs[k] EXCEPT !.Read =
            \E n \in 1..Len(readFields) : readFields[n] = FieldName(fs[k])]]

\* SetReadFields(readFields).  With note, the list is kept in calls.
SetReadFieldsStep(readFields, note) ==
    /\ fields' = SetReadFieldsOf(fields, readFields)
    /\ src' = [src EXCEPT !.hi = 0]
    /\ ret' = Ret("SetReadFields", 0, NoOutcome, <<>>)
    /\ memo' = NoMemo
    /\ calls' = IF note
                THEN [calls EXCEPT !.set = TRUE, !.readFields = readFields]
                ELSE calls
    /\ UNCHANGED <<file, flags, headerlen, recordlen, Length, conc>>

SetReadFields(readFields) == SetReadFieldsStep(readFields, FALSE)

SetReadFieldsNoted(readFields) == SetReadFieldsStep(readFields, TRUE)

\* SetFilter that takes the Filter off every field the map does not name.
SetFilterReplacing(fs, filterFields) ==
    [k \in 1..Len(fs) |->
        IF FieldName(fs[k]) \in DOMAIN filterFields
        THEN [fs[k] EXCEPT !.Filter = filterFields[FieldName(fs[k])]]
        ELSE [fs[k] EXCEPT !.Filter = NoFilter]]

\* The catalog after SetFilter(filterFields)
SetFilterOf(fs, filterFields) ==
    [k \in 1..Len(fs) |->
        IF FieldName(fs[k]) \in DOMAIN filterFields
        THEN [fs[k] EXCEPT !.Filter = filterFields[FieldName(fs[k])]]
        ELSE fs[k]]

\* The Filter last given for each name, after one more map.
GivenAfter(given, filterFields) ==
    [name \in (DOMAIN given) \cup (DOMAIN filterFields) |->
        IF name \in DOMAIN filterFields THEN filterFields[name] ELSE given[name]]

\* SetFilter(filterFields).  With note, the map is kept in calls.
SetFilterStep(filterFields, note) ==
    /\ fields' = SetFilterOf(fields, filterFields)
    /\ src' = [src EXCEPT !.hi = 0]
    /\ ret' = Ret("SetFilter", 0, NoOutcome, <<>>)
    /\ memo' = NoMemo
    /\ calls' = IF note
                THEN [calls EXCEPT !.filters = GivenAfter(calls.filters, filterFields)]
                ELSE calls
    /\ UNCHANGED <<file, flags, headerlen, recordlen, Length, conc>>

SetFilter(filterFields) == SetFilterStep(filterFields, FALSE)

SetFilterNoted(filterFields) == SetFilterStep(filterFields, TRUE)

\* Read(i), the whole call.  The call's own high-water mark starts at 0.
\* With note, the call and its outcome are kept in memo.
ReadStep(i, note) ==
    \E r \in {ReadCall(file, fields, flags, headerlen, recordlen,
                       [pos |-> src.pos, hi |-> 0], i)} :
        /\ src' = r.s
        /\ ret' = Ret("Read", i, r.out, <<>>)
        /\ memo' = IF note THEN [set |-> TRUE, i |-> i, out |-> r.out, later |-> 0]
                  ELSE Later(memo)
        /\ UNCHANGED <<file, fields, flags, headerlen, recordlen, Length, conc, calls>>

Read(i) == ReadStep(i, FALSE)

ReadNoted(i) == ReadStep(i, TRUE)

\* rec[name] of a Go map: the zero value (nil) for a missing key or a nil map
MapGet(rec, name) == IF name \in DOMAIN rec THEN rec[name] ELSE NilV

\* ReadOrdered's re-projection of rec in the order of FieldNames()
Ordered(fs, rec) == [k \in 1..Len(fs) |-> MapGet(rec, FieldName(fs[k]))]

\* ReadOrdered(i): Read(i), then the values in catalog order
ReadOrdered(i) ==
    \E r \in {ReadCall(file, fields, flags, headerlen, recordlen,
                       [pos |-> src.pos, hi |-> 0], i)} :
        /\ src' = r.s
        /\ ret' = IF r.out.kind \in {"Record", "NoValue"}
                  THEN Ret("ReadOrdered", i, Outcome("Ordered", EmptyRecord),
                           Ordered(fields, r.out.rec))
                  ELSE Ret("ReadOrdered", i, r.out, <<>>)
        /\ memo' = Later(memo)
        /\ UNCHANGED <<file, fields, flags, headerlen, recordlen, Length, conc, calls>>

Next ==
    \/ \E f \in FlagValues : SetFlags(f)
    \/ \E l \in ReadFieldLists : SetReadFields(l)
    \/ \E m \in FilterMaps : SetFilter(m)
    \/ \E i \in Indices : Read(i)
    \/ \E i \in Indices : ReadOrdered(i)

Spec == Init /\ [][Next]_vars

\* Spec with the history variable memo recorded, under fewer flag values.
HistFlagValues == {0, FlagSkipWeird + FlagSkipDeleted, 15}

NextHist ==
    \/ \E f \in HistFlagValues : SetFlags(f)
    \/ \E l \in ReadFieldLists : SetReadFields(l)
    \/ \E m \in FilterMaps : SetFilter(m)
    \/ \E i \in Indices : Read(i)
    \/ \E i \in Indices : ReadNoted(i)
    \/ \E i \in Indices : ReadOrdered(i)

SpecHist == Init /\ [][NextHist]_vars

(***************************************************************************)
(* The catalog's queries, and the settings with their history kept.        *)
(***************************************************************************)
\* FieldInfo(i): [kind, field].  Only i >= len(r.fields) is tested; a
\* negative i indexes r.fields out of range, a run-time panic.
FieldInfoOf(fs, i) ==
    IF i >= Len(fs) THEN [kind |-> "NoFieldError", field |-> <<>>]
    ELSE IF i < 0 THEN [kind |-> "panic", field |-> <<>>]
    ELSE [kind |-> "Field", field |-> <<fs[i + 1].Field>>]

FieldInfo(i) ==
    /\ ret' = Ret("FieldInfo", i, Outcome(FieldInfoOf(fields, i).kind, EmptyRecord),
                  FieldInfoOf(fields, i).field)
    /\ UNCHANGED <<file, src, fields, flags, headerlen, recordlen, Length, memo,
                   conc, calls>>

\* NumberOfFields()
NumberOfFields ==
    /\ ret' = Ret("NumberOfFields", Len(fields), NoOutcome, <<>>)
    /\ UNCHANGED <<file, src, fields, flags, headerlen, recordlen, Length, memo,
                   conc, calls>>

\* The loop of NumberOfReadFields over the first k fields
RECURSIVE CountRead(_, _)
CountRead(fs, k) ==
    IF k = 0 THEN 0
    ELSE CountRead(fs, k - 1) + (IF fs[k].Read THEN 1 ELSE 0)

\* NumberOfReadFields()
NumberOfReadFields ==
    /\ ret' = Ret("NumberOfReadFields", CountRead(fields, Len(fields)), NoOutcome, <<>>)
    /\ UNCHANGED <<file, src, fields, flags, headerlen, recordlen, Length, memo,
                   conc, calls>>

NextCatalog ==
    \/ \E l \in ReadFieldLists : SetReadFieldsNoted(l)
    \/ \E m \in FilterMaps : SetFilterNoted(m)
    \/ \E i \in Indices : FieldInfo(i)
    \/ NumberOfFields
    \/ NumberOfReadFields

SpecCatalog == Init /\ [][NextCatalog]_vars

(***************************************************************************)
(* Read called from several goroutines: the same Read, one step at a time. *)
(***************************************************************************)
AllIdle == \A p \in Procs : pc[p] = "idle"

\* r.Lock() of a mutex that lets every caller in.
LockUnguarded(p) ==
    /\ pc[p] = "Lock"
    /\ mutex' = TRUE
    /\ pc' = [pc EXCEPT ![p] = "Seek"]
    /\ UNCHANGED <<file, src, fields, flags, headerlen, recordlen, Length,
                   ret, memo, frame, calls>>

\* A goroutine calls Read(i)
Call(p, i) ==
    /\ pc[p] = "idle"
    /\ pc' = [pc EXCEPT ![p] = "Lock"]
    /\ frame' = [frame EXCEPT ![p] = [NoFrame EXCEPT !.i = i]]
    /\ UNCHANGED <<file, src, fields, flags, headerlen, recordlen, Length,
                   ret, memo, mutex, calls>>

\* r.Lock()
Lock(p) ==
    /\ pc[p] = "Lock"
    /\ ~mutex
    /\ mutex' = TRUE
    /\ pc' = [pc EXCEPT ![p] = "Seek"]
    /\ UNCHANGED <<file, src, fields, flags, headerlen, recordlen, Length,
                   ret, memo, frame, calls>>

\* The return statement met: the value is set, the deferred Unlock is next.
Leave(p, out) ==
    /\ pc' = [pc EXCEPT ![p] = "Unlock"]
    /\ frame' = [frame EXCEPT ![p] = [NoFrame EXCEPT !.i = frame[p].i, !.out = out]]

\* r.r.Seek(offset, 0)
DoSeek(p) ==
    /\ pc[p] = "Seek"
    /\ \E sk \in {SeekStep(headerlen, recordlen, [pos |-> src.pos, hi |-> 0],
                            frame[p].i)} :
           /\ src' = sk.s
           /\ IF ~sk.ok THEN Leave(p, Outcome("SeekError", EmptyRecord))
              ELSE /\ pc' = [pc EXCEPT ![p] = "Marker"]
                   /\ frame' = [frame EXCEPT ![p].offset = sk.offset]
    /\ UNCHANGED <<file, fields, flags, headerlen, recordlen, Length, ret, memo,
                   mutex, calls>>

\* The deleted-marker byte
DoMarker(p) ==
    /\ pc[p] = "Marker"
    /\ \E m \in {MarkerStep(file, flags, src)} :
           /\ src' = m.s
           /\ IF m.kind # "" THEN Leave(p, Outcome(m.kind, EmptyRecord))
              ELSE IF Len(fields) = 0 THEN Leave(p, Outcome("Record", EmptyRecord))
              ELSE /\ pc' = [pc EXCEPT ![p] = "Field"]
                   /\ frame' = [frame EXCEPT ![p].offset = frame[p].offset + 1,
                                             ![p].k = 1]
    /\ UNCHANGED <<file, fields, flags, headerlen, recordlen, Length, ret, memo,
                   mutex, calls>>

\* One turn of the loop over r.fields
DoField(p) ==
    /\ pc[p] = "Field"
    /\ \E st \in {FieldStep(file, fields[frame[p].k], src, frame[p].offset,
                              frame[p].rec)} :
           /\ src' = st.s
           /\ IF st.kind # "" THEN Leave(p, Outcome(st.kind, EmptyRecord))
              ELSE IF frame[p].k = Len(fields)
              THEN Leave(p, Outcome("Record", st.rec))
              ELSE /\ pc' = pc
                   /\ frame' = [frame EXCEPT ![p].offset = st.offset,
                                             ![p].k = frame[p].k + 1,
                                             ![p].rec = st.rec]
    /\ UNCHANGED <<file, fields, flags, headerlen, recordlen, Length, ret, memo,
                   mutex, calls>>

\* defer r.Unlock(), and the return to the caller
Unlock(p) ==
    /\ pc[p] = "Unlock"
    /\ mutex' = FALSE
    /\ pc' = [pc EXCEPT ![p] = "idle"]
    /\ frame' = [frame EXCEPT ![p] = NoFrame]
    /\ UNCHANGED <<file, src, fields, flags, headerlen, recordlen, Length, ret, memo,
                   calls>>

\* The settings change while no Read is running.
ConcFlagValues == {0, FlagSkipWeird + FlagSkipDeleted}

ConcReadFieldLists == { <<NAME>>, <<QTY, NAME>>, <<ID, DOB>>, <<ZZ, NUM>> }

ConcFilterMaps ==
    { (NAME :> Filter("=", <<97, 98>>)),
      (QTY :> Filter(">", <<53>>)),
      (DOB :> Filter(">", D20200101)),
      (DOB :> Filter("!=", D20200101)) }

NextConc ==
    \/ \E f \in ConcFlagValues : AllIdle /\ SetFlags(f)
    \/ \E l \in ConcReadFieldLists : AllIdle /\ SetReadFields(l)
    \/ \E m \in ConcFilterMaps : AllIdle /\ SetFilter(m)
    \/ \E p \in Procs : \E i \in Indices : Call(p, i)
    \/ \E p \in Procs : Lock(p)
    \/ \E p \in Procs : DoSeek(p)
    \/ \E p \in Procs : DoMarker(p)
    \/ \E p \in Procs : DoField(p)
    \/ \E p \in Procs : Unlock(p)

SpecConc == Init /\ [][NextConc]_vars

\* The calls of Read alone, the settings made once before the first of them.
Fresh == AllIdle /\ ret.op = "NewReader"

NextConcCalls ==
    \/ \E f \in ConcFlagValues : Fresh /\ SetFlags(f)
    \/ \E m \in ConcFilterMaps : Fresh /\ SetFilter(m)
    \/ \E p \in Procs : \E i \in Indices : Call(p, i)
    \/ \E p \in Procs : Lock(p)
    \/ \E p \in Procs : DoSeek(p)
    \/ \E p \in Procs : DoMarker(p)
    \/ \E p \in Procs : DoField(p)
    \/ \E p \in Procs : Unlock(p)

\* A goroutine inside Read keeps running, and sync.Mutex hands the lock to
\* a goroutine that keeps waiting for it.
SpecConcFair ==
    /\ Init /\ [][NextConcCalls]_vars
    /\ \A p \in Procs :
          /\ WF_vars(DoSeek(p) \/ DoMarker(p) \/ DoField(p) \/ Unlock(p))
          /\ SF_vars(Lock(p))

(***************************************************************************)
(* NewReader on its own: the inputs it is given, and the one call.         *)
(***************************************************************************)
\* A 32-byte slot of the descriptor table: a field QTY N(2,0); the same with
\* 0x0D as its last byte; a field of the unknown type 'X'; a slot whose
\* second name byte is 0x0D; a slot whose first byte is 0x0D.
SlotField == Descriptor(QTY, 78, 2, 0)
SlotFieldEnds0D == SubSeq(SlotField, 1, 31) \o <<13>>
SlotBadType == Descriptor(QTY, 88, 2, 0)
SlotSentinel == Descriptor(<<81, 13>>, 78, 2, 0)
SlotStarts0D == Descriptor(<<13>>, 78, 2, 0)

SlotKinds == {SlotField, SlotFieldEnds0D, SlotBadType, SlotSentinel, SlotStarts0D}

\* The slots after the 32-byte header: none, one or two.
SlotLists ==
    {<<>>} \cup {s1 : s1 \in SlotKinds}
           \cup {s1 \o s2 : s1 \in SlotKinds, s2 \in SlotKinds}

\* The header lengths the inputs declare, and what follows the slots.
OpenHeaderlens == {64, 65, 96, 97}
OpenTails == {<<>>, <<13, 32, 32, 52>>, <<0, 13>>, <<32>>}

OpenInputs ==
    {Header(1, hl, 3) \o slots \o tail :
        hl \in OpenHeaderlens, slots \in SlotLists, tail \in OpenTails}

\* No Reader yet: the byte source alone.
InitOpen ==
    /\ file \in OpenInputs
    /\ src = [pos |-> 0, hi |-> 0]
    /\ fields = <<>>
    /\ flags = 0
    /\ headerlen = 0
    /\ recordlen = 0
    /\ Length = 0
    /\ ret = Ret("", 0, NoOutcome, <<>>)
    /\ memo = NoMemo
    /\ calls = NoCalls
    /\ mutex = FALSE
    /\ pc = [p \in Procs |-> "idle"]
    /\ frame = [p \in Procs |-> NoFrame]

\* NewReader(r): ret keeps the error (kind "" for none) and, in i, the
\* offset of the byte compared with 0x0D.
Open ==
    /\ ret.op = ""
    /\ \E rd \in {NewReader(file)} :
           /\ ret' = Ret("NewReader", rd.eohAt, Outcome(rd.err, EmptyRecord), <<>>)
           /\ fields' = rd.fields
           /\ headerlen' = rd.headerlen
           /\ recordlen' = rd.recordlen
           /\ Length' = rd.Length
           /\ src' = [pos |-> rd.pos, hi |-> 0]
    /\ UNCHANGED <<file, flags, memo, conc, calls>>

NextOpen == Open

SpecOpen == InitOpen /\ [][NextOpen]_vars

(***************************************************************************)
(* What the claims speak of, read off the file and the catalog.            *)
(***************************************************************************)
\* The offset of record i, and its marker byte when the file holds it.
RecOffset(i) == headerlen + recordlen * i
HasMarker(i) == RecOffset(i) >= 0 /\ RecOffset(i) < Len(file)
MarkerOf(i) == file[RecOffset(i) + 1]
Live(i) == HasMarker(i) /\ MarkerOf(i) = 32

\* The declared lengths of the fields before field k.
RECURSIVE LenBefore(_, _)
LenBefore(fs, k) == IF k <= 1 THEN 0 ELSE LenBefore(fs, k - 1) + fs[k - 1].Field.Len

\* The byte span of field k in record i: after the marker and the fields
\* before it.
SpanStart(i, k) == RecOffset(i) + 1 + LenBefore(fields, k)
SpanIn(i, k) == SpanStart(i, k) + fields[k].Field.Len <= Len(file)
SpanOf(i, k) == SubSeq(file, SpanStart(i, k) + 1, SpanStart(i, k) + fields[k].Field.Len)

FieldIndices == 1..Len(fields)
Attached(k) == fields[k].Filter.Value # <<>>
NoFilters == \A k \in FieldIndices : ~Attached(k)
IncludedNames == {FieldName(fields[k]) : k \in {j \in FieldIndices : fields[j].Read}}
Restrict(rec, names) == [x \in (DOMAIN rec) \cap names |-> rec[x]]
AllIncluded(fs) == [k \in 1..Len(fs) |-> [fs[k] EXCEPT !.Read = TRUE]]
\* No later field carries field k's name.
LastOfName(k) ==
    \A j \in FieldIndices : j > k => FieldName(fields[j]) # FieldName(fields[k])

\* Field k of record i is passed without stopping the read: its bytes are
\* there, its predicate (if any) evaluates to true, its value (if included)
\* decodes.
Fine(i, k) ==
    (fields[k].Read \/ Attached(k)) =>
        /\ SpanIn(i, k)
        /\ Attached(k) =>
              LET fv == filterValue(fields[k], SpanOf(i, k))
              IN  fv.err = "" /\ fv.filtered
        /\ fields[k].Read =>
              getFieldValueCasting(fields[k].Field, SpanOf(i, k)).err = ""

\* Field k's predicate evaluates, to false.
FalseAt(i, k) ==
    /\ Attached(k)
    /\ SpanIn(i, k)
    /\ LET fv == filterValue(fields[k], SpanOf(i, k))
       IN  fv.err = "" /\ ~fv.filtered

IsRead == ret.op = "Read"

(***************************************************************************)
(* The claims.                                                             *)
(***************************************************************************)

\* C1: Read(i) maps the record's first byte to exactly one outcome: ' ' ->
\* the fields are gone through (none of the marker's four outcomes); '*' ->
\* SkipError when FlagSkipDeleted is set, otherwise DELETEDError; 0x1A ->
\* SkipError when FlagSkipWeird is set, otherwise EOFError; any other byte ->
\* the format error.  No other flag changes these, and when the marker is
\* not ' ' the call reads the marker byte and nothing after it.
C1_MarkerMatrix ==
    (IsRead /\ HasMarker(ret.i)) =>
        LET b == MarkerOf(ret.i)
            k == ret.out.kind
        IN  /\ b = 32 => k \notin {"SkipError", "DELETEDError", "EOFError", "FormatError"}
            /\ b = 42 => k = IF flags \in {4, 5, 6, 7, 12, 13, 14, 15}
                              THEN "SkipError" ELSE "DELETEDError"
            /\ b = 26 => k = IF flags \in {2, 3, 6, 7, 10, 11, 14, 15}
                              THEN "SkipError" ELSE "EOFError"
            /\ b \notin {32, 42, 26} => k = "FormatError"
            /\ b # 32 => /\ src.pos = RecOffset(ret.i) + 1
                         /\ src.hi = RecOffset(ret.i) + 1
                         /\ ret.out.rec = EmptyRecord

\* A Read of a record marked 0x1A with FlagSkipDeleted set and FlagSkipWeird
\* not: EOFError.
C1_Witness ==
    /\ IsRead /\ HasMarker(ret.i) /\ MarkerOf(ret.i) = 26
    /\ flags = FlagSkipDeleted + FlagDateAssql
    /\ ret.out.kind = "EOFError"

\* C3: with no filter attached, when Read(i) with every field included
\* returns a Record R, Read(i) returns R restricted to the included names,
\* and each included field's value is the one decoded from its own span.
C3_Projection ==
    (IsRead /\ NoFilters) =>
        LET full == ReadCall(file, AllIncluded(fields), flags, headerlen,
                             recordlen, [pos |-> 0, hi |-> 0], ret.i).out
        IN  full.kind = "Record" =>
              /\ ret.out.kind = "Record"
              /\ DOMAIN ret.out.rec = IncludedNames
              /\ \A n \in IncludedNames : ret.out.rec[n] = full.rec[n]
              /\ \A k \in FieldIndices :
                    (fields[k].Read /\ LastOfName(k)) =>
                        ret.out.rec[FieldName(fields[k])]
                          = getFieldValueCasting(fields[k].Field, SpanOf(ret.i, k)).val

\* A Read that skipped the first field and decoded the second.
C3_Witness ==
    /\ IsRead /\ NoFilters /\ Len(fields) = 2
    /\ ~fields[1].Read /\ fields[2].Read
    /\ ret.out.kind = "Record"
    /\ DOMAIN ret.out.rec = {FieldName(fields[2])}

\* C4: for a live record, a false predicate on a field reached without a
\* stop makes Read return (nil, nil); when every field passes, Read returns
\* the Record; (nil, nil) comes from a false predicate only; and in a
\* returned Record every attached predicate was evaluated on bytes Read read
\* (also those of an excluded field), while an excluded field's name is no
\* key of the Record.
C4_Filter ==
    (IsRead /\ Live(ret.i)) =>
        LET i == ret.i
        IN  /\ (\E k \in FieldIndices :
                   FalseAt(i, k) /\ \A j \in 1..(k - 1) : Fine(i, j))
                 => ret.out = Outcome("NoValue", EmptyRecord)
            /\ (\A k \in FieldIndices : Fine(i, k)) => ret.out.kind = "Record"
            /\ ret.out.kind = "NoValue" => \E k \in FieldIndices : FalseAt(i, k)
            /\ ret.out.kind = "Record" =>
                  \A k \in FieldIndices :
                      Attached(k) =>
                          /\ SpanIn(i, k)
                          /\ filterValue(fields[k], SpanOf(i, k)).filtered
                          /\ src.hi >= SpanStart(i, k) + fields[k].Field.Len
                          /\ FieldName(fields[k]) \notin IncludedNames
                                => FieldName(fields[k]) \notin DOMAIN ret.out.rec

\* A live record turned down by the predicate of a field that is excluded
\* from the output.
C4_Witness ==
    /\ IsRead /\ Live(ret.i) /\ Len(fields) = 2
    /\ ~fields[1].Read /\ fields[2].Read /\ Attached(1) /\ ~Attached(2)
    /\ FalseAt(ret.i, 1)
    /\ ret.out.kind = "NoValue"

\* The integer a field's span holds: type N with no decimal places (blank
\* is 0), type I.
IntField(k) ==
    \/ fields[k].Field.Type = 78 /\ fields[k].Field.DecimalPlaces = 0
    \/ fields[k].Field.Type = 73
IntDecodes(i, k) ==
    /\ SpanIn(i, k)
    /\ IF fields[k].Field.Type = 73 THEN Len(SpanOf(i, k)) >= 4
       ELSE TrimSpace(SpanOf(i, k)) = <<>> \/ Atoi(TrimSpace(SpanOf(i, k))).ok
IntValueOf(i, k) ==
    IF fields[k].Field.Type = 73 THEN Int32LE(SpanOf(i, k))
    ELSE IF TrimSpace(SpanOf(i, k)) = <<>> THEN 0
    ELSE Atoi(TrimSpace(SpanOf(i, k))).v
Compare(a, op, b) ==
    IF op = "=" THEN a = b ELSE IF op = ">" THEN a > b ELSE a < b

IntFilterCase(i, k) ==
    /\ IntField(k) /\ Attached(k)
    /\ fields[k].Filter.Condition \in {"=", ">", "<"}
    /\ Atoi(fields[k].Filter.Value).ok
    /\ IntDecodes(i, k)
    /\ \A j \in FieldIndices \ {k} : Fine(i, j)

IntFilterOutcome(i, k) ==
    ret.out.kind =
        IF Compare(IntValueOf(i, k), fields[k].Filter.Condition,
                   Atoi(fields[k].Filter.Value).v)
        THEN "Record" ELSE "NoValue"

\* C5: for a field decoding to an integer (type N with zero decimal places,
\* type I) with a filter {op, L}, op one of "=", ">", "<" and L an integer,
\* Read of a live record (its other fields passing) returns the Record if
\* and only if value op L, and (nil, nil) otherwise, never an error.
C5_IntegerFilter ==
    (IsRead /\ Live(ret.i)) =>
        \A k \in FieldIndices : IntFilterCase(ret.i, k) => IntFilterOutcome(ret.i, k)

\* C5, for the fields of type N alone (the part of C5 the reader keeps).
C5_NumericFilter ==
    (IsRead /\ Live(ret.i)) =>
        \A k \in FieldIndices :
            (fields[k].Field.Type = 78 /\ IntFilterCase(ret.i, k))
                => IntFilterOutcome(ret.i, k)

\* A date as one number, for comparing.
DayNumber(ymd) == ymd[1] * 10000 + ymd[2] * 100 + ymd[3]

\* Field k is a date field whose span in record i holds a valid date.
ValidDateAt(i, k) ==
    /\ fields[k].Field.Type = 68
    /\ SpanIn(i, k)
    /\ SpanOf(i, k) # Spaces(8)
    /\ ParseDate8(TrimSpace(SpanOf(i, k))).ok
DateAt(i, k) == ParseDate8(TrimSpace(SpanOf(i, k))).v

\* C6: for a date field with a filter {op, L} attached and a live record
\* whose span holds a valid date d (its other fields passing): when L is a
\* valid YYYY-MM-DD date and op is ">", "<" or "=", Read returns the Record
\* iff d is after, before, equal to L and (nil, nil) otherwise; when L does
\* not parse, or op is any other operator, Read returns the filter error.
C6_DateFilter ==
    (IsRead /\ Live(ret.i)) =>
        \A k \in FieldIndices :
            ( /\ ValidDateAt(ret.i, k) /\ Attached(k)
              /\ \A j \in FieldIndices \ {k} : Fine(ret.i, j) )
            => LET lit == ParseDateISO(fields[k].Filter.Value)
                   op  == fields[k].Filter.Condition
               IN  IF lit.ok /\ op \in {"=", ">", "<"}
                   THEN ret.out.kind =
                          IF Compare(DayNumber(DateAt(ret.i, k)), op, DayNumber(lit.v))
                          THEN "Record" ELSE "NoValue"
                   ELSE ret.out.kind = "FilterError"

\* A record dated 2019-12-31 turned down by the filter {">", "2020-01-01"}.
C6_Witness ==
    /\ IsRead /\ Live(ret.i) /\ Len(fields) = 2
    /\ ValidDateAt(ret.i, 2) /\ DateAt(ret.i, 2) = <<2019, 12, 31>>
    /\ fields[2].Filter = Filter(">", D20200101)
    /\ ret.out.kind = "NoValue"

\* C7: a valid date is stored as the text "YYYY-MM-DD" when FlagDateAssql is
\* set at the time of the read, and as a calendar date when it is not.
C7_DateAsSQL ==
    (IsRead /\ ret.out.kind = "Record") =>
        \A k \in FieldIndices :
            (ValidDateAt(ret.i, k) /\ fields[k].Read /\ LastOfName(k))
            => ret.out.rec[FieldName(fields[k])]
                 = IF HasFlag(flags, FlagDateAssql)
                   THEN StringV(FormatISO(DateAt(ret.i, k)))
                   ELSE TimeV(DateAt(ret.i, k))

\* C7 and C8 on the date decoding of src/dbf.go: there the flags decide the
\* representation as the two claims say.
DatesAsClaimedInDbf ==
    \A i \in Indices : \A k \in FieldIndices :
        (fields[k].Field.Type = 68 /\ RecOffset(i) >= 0 /\ SpanIn(i, k)) =>
            LET buf == SpanOf(i, k)
                got == DateValueDbf(flags, buf)
            IN  /\ ParseDate8(TrimSpace(buf)).ok =>
                      got = [err |-> "",
                             val |-> IF flags \in {1, 3, 5, 7, 9, 11, 13, 15}
                                     THEN StringV(FormatISO(DateAt(i, k)))
                                     ELSE TimeV(DateAt(i, k))]
                /\ buf = Spaces(Len(buf)) =>
                      got = [err |-> "",
                             val |-> IF flags \in {9, 11, 13, 15}
                                     THEN StringV(<<48, 48, 48, 48, 45, 48, 48, 45, 48, 48>>)
                                     ELSE IF flags \in {1, 3, 5, 7}
                                     THEN StringV(<<>>)
                                     ELSE TimeV(<<1, 1, 1>>)]

\* C8: a date field whose span is all spaces is stored as the zero calendar
\* date with no flag (or FlagEmptyDateAsZero alone), as "" with FlagDateAssql
\* alone, as "0000-00-00" with FlagDateAssql and FlagEmptyDateAsZero.
C8_EmptyDate ==
    (IsRead /\ Live(ret.i) /\ NoFilters) =>
        \A k \in FieldIndices :
            ( /\ fields[k].Field.Type = 68 /\ fields[k].Read /\ LastOfName(k)
              /\ SpanIn(ret.i, k)
              /\ SpanOf(ret.i, k) = Spaces(fields[k].Field.Len)
              /\ \A j \in FieldIndices \ {k} : Fine(ret.i, j) )
            => /\ ret.out.kind = "Record"
               /\ ret.out.rec[FieldName(fields[k])]
                    = IF HasFlag(flags, FlagDateAssql)
                      THEN IF HasFlag(flags, FlagEmptyDateAsZero)
                           THEN StringV(<<48, 48, 48, 48, 45, 48, 48, 45, 48, 48>>)
                           ELSE StringV(<<>>)
                      ELSE TimeV(<<1, 1, 1>>)

\* C9: Read(i) with 0 <= i < Length touches no offset beyond
\* headerlen + recordlen * Length.
C9_WithinTable ==
    (IsRead /\ ret.i >= 0 /\ ret.i < Length) =>
        src.hi <= headerlen + recordlen * Length

\* C10: a Read(i) returns what an earlier Read(i) returned when no SetFlags,
\* SetReadFields or SetFilter came between them, whatever Read and
\* ReadOrdered calls did.
C10_Idempotent ==
    (IsRead /\ memo.set /\ memo.later >= 1 /\ memo.i = ret.i) => ret.out = memo.out

\* A second Read(i) that returned a Record, two or more calls after the first.
C10_Witness ==
    /\ IsRead /\ memo.set /\ memo.later = 2 /\ memo.i = ret.i
    /\ ret.out.kind = "Record" /\ Len(fields) = 2
    /\ src.pos # headerlen + recordlen * ret.i + 1

\* Between its seek and its last read or skip, up to the deferred Unlock.
InRead(p) == pc[p] \in {"Seek", "Marker", "Field", "Unlock"}

\* C2: at most one Read call is between its seek and its last read or skip;
\* the byte source stands where the running call left it; the value a call
\* is about to return is the one Read(i) alone returns; and the lock is held
\* exactly while some call is between Lock and Unlock, whatever the call
\* returns.
C2_Exclusive ==
    /\ \A p \in Procs : \A q \in Procs : (InRead(p) /\ InRead(q)) => p = q
    /\ mutex <=> \E p \in Procs : InRead(p)
    /\ \A p \in Procs :
          /\ pc[p] \in {"Marker", "Field"} => src.pos = frame[p].offset
          /\ pc[p] = "Unlock" =>
                frame[p].out = ReadCall(file, fields, flags, headerlen, recordlen,
                                        src, frame[p].i).out

\* C2, the waiting caller: a goroutine waiting in Lock acquires the lock.
C2_Progress == \A p \in Procs : (pc[p] = "Lock") ~> (pc[p] = "Seek")

\* One call in the middle of its fields while another waits for the lock.
C2_Witness ==
    \E p \in Procs : \E q \in Procs :
        /\ pc[p] = "Field" /\ frame[p].k = 2
        /\ pc[q] = "Lock" /\ frame[q].i # frame[p].i

\* What Read(i) returns on the reader as it stands.
ReadOf(i) == ReadCall(file, fields, flags, headerlen, recordlen, src, i).out

IsReadOrdered == ret.op = "ReadOrdered"

\* The sequence ReadOrdered returned holds, at each included field's place,
\* the value decoded from that field's own span of record i.
OrderedBySpan(i) ==
    /\ ret.out.kind = "Ordered"
    /\ Len(ret.orec) = Len(fields)
    /\ \A k \in FieldIndices :
          fields[k].Read =>
              ret.orec[k] = getFieldValueCasting(fields[k].Field, SpanOf(i, k)).val

\* C11: where Read(i) returns a Record, ReadOrdered(i) returns a sequence of
\* length NumberOfFields() whose k-th element is the value decoded from the
\* k-th field's span of record i, also with two fields of one name; where
\* Read(i) returns an error or signal, ReadOrdered(i) returns that error and
\* no sequence.
C11_Ordered ==
    IsReadOrdered =>
        /\ ReadOf(ret.i).kind = "Record" => OrderedBySpan(ret.i)
        /\ ReadOf(ret.i).kind \notin {"Record", "NoValue"}
              => ret.out = ReadOf(ret.i) /\ ret.orec = <<>>

\* C11, for the catalogs in which no two fields share a name (the part of
\* C11 the reader keeps).
C11_OrderedDistinctNames ==
    (IsReadOrdered /\ \A k \in FieldIndices : LastOfName(k)) =>
        /\ ReadOf(ret.i).kind = "Record" => OrderedBySpan(ret.i)
        /\ ReadOf(ret.i).kind \notin {"Record", "NoValue"}
              => ret.out = ReadOf(ret.i) /\ ret.orec = <<>>

\* C16: where Read(i) returns (nil, nil) because a predicate failed,
\* ReadOrdered(i) returns no sequence either.
C16_OrderedNoValue ==
    (IsReadOrdered /\ ReadOf(ret.i).kind = "NoValue") =>
        ret.out.kind = "NoValue" /\ ret.orec = <<>>

\* C17: with a filter of a supported operator and a valid YYYY-MM-DD literal
\* on a date field, Read of a live record whose date span is all spaces (its
\* other fields passing) returns the Record or (nil, nil), never an error.
C17_EmptyDateFilter ==
    (IsRead /\ Live(ret.i)) =>
        \A k \in FieldIndices :
            ( /\ fields[k].Field.Type = 68 /\ Attached(k)
              /\ fields[k].Filter.Condition \in {"=", ">", "<"}
              /\ ParseDateISO(fields[k].Filter.Value).ok
              /\ SpanIn(ret.i, k)
              /\ SpanOf(ret.i, k) = Spaces(fields[k].Field.Len)
              /\ \A j \in FieldIndices \ {k} : Fine(ret.i, j) )
            => ret.out.kind \in {"Record", "NoValue"}

\* The header length the input declares (bytes 8-9, little endian).
DeclaredHeaderlen == LEValue(SubSeq(file, 9, 10), 2)

Opened == ret.op = "NewReader" /\ ret.out.kind = ""

\* C12: open succeeds only if the byte at offset headerLength - 1 is 0x0D,
\* that byte being the one open compares; when the input (not cut short
\* of its header) holds another byte there, open fails with a format error.
C12_Terminator ==
    ret.op = "NewReader" =>
        /\ ret.out.kind = "" =>
              /\ file[DeclaredHeaderlen] = 13
              /\ ret.i = DeclaredHeaderlen - 1
        /\ (Len(file) > DeclaredHeaderlen /\ file[DeclaredHeaderlen] # 13)
              => ret.out.kind = "FormatError"

\* C12, as the reader has it: open succeeds only if the byte after the
\* slots it consumed (the fields, and the sentinel slot if it met one) is
\* 0x0D.
C12_ByteAfterSlots ==
    Opened =>
        /\ ret.i \in {32 + 32 * Len(fields), 64 + 32 * Len(fields)}
        /\ ret.i = 64 + 32 * Len(fields)
              => file[32 + 32 * Len(fields) + 2] = 13
        /\ file[ret.i + 1] = 13

\* C13: FieldInfo(i) returns the i-th descriptor when
\* 0 <= i < NumberOfFields(), and the "no such field" error, with no
\* descriptor and without aborting, for every other i, negative i included.
C13_FieldInfo ==
    ret.op = "FieldInfo" =>
        IF 0 <= ret.i /\ ret.i < Len(fields)
        THEN ret.out.kind = "Field" /\ ret.orec = <<fields[ret.i + 1].Field>>
        ELSE ret.out.kind = "NoFieldError" /\ ret.orec = <<>>

\* C13, for i >= 0 (the part of C13 the reader keeps).
C13_FieldInfoFromZero ==
    (ret.op = "FieldInfo" /\ ret.i >= 0) =>
        IF ret.i < Len(fields)
        THEN ret.out.kind = "Field" /\ ret.orec = <<fields[ret.i + 1].Field>>
        ELSE ret.out.kind = "NoFieldError" /\ ret.orec = <<>>

\* The name of field k is in the list of the last SetReadFields call.
InLastList(k) ==
    \E n \in 1..Len(calls.readFields) : calls.readFields[n] = FieldName(fields[k])

\* A field is included iff no SetReadFields was called or the last list
\* names it.
ReadFlagsAsLastList ==
    \A k \in FieldIndices : fields[k].Read <=> (~calls.set \/ InLastList(k))

\* Each field carries the Filter last given for its name, or none.
FiltersAsGiven ==
    \A k \in FieldIndices :
        fields[k].Filter =
            IF FieldName(fields[k]) \in DOMAIN calls.filters
            THEN calls.filters[FieldName(fields[k])]
            ELSE NoFilter

\* The descriptors, in number and order, are those NewReader read.
CatalogAsOpened ==
    /\ Len(fields) = Len(NewReader(file).fields)
    /\ \A k \in FieldIndices : fields[k].Field = NewReader(file).fields[k].Field

\* C14: every field is included after open; after SetReadFields calls a
\* field is included iff the last call's list has its name;
\* NumberOfReadFields() is the number of such fields; and no field's
\* Filter, descriptor or position is changed.
C14_ReadFields ==
    /\ ReadFlagsAsLastList
    /\ ret.op = "NumberOfReadFields" =>
          ret.i = Cardinality({k \in FieldIndices : ~calls.set \/ InLastList(k)})
    /\ FiltersAsGiven
    /\ CatalogAsOpened

\* NumberOfReadFields() answers 1 of 2 after a SetReadFields call, the
\* excluded field keeping its Filter.
C14_Witness ==
    /\ ret.op = "NumberOfReadFields" /\ ret.i = 1 /\ Len(fields) = 2
    /\ calls.set /\ Len(calls.readFields) = 1
    /\ \E k \in FieldIndices : Attached(k) /\ ~fields[k].Read

\* C15: each field carries at most one Filter, the one given for its name
\* by the last SetFilter call whose map names it, or none; SetFilter leaves
\* the other fields' Filters, every inclusion flag and every descriptor as
\* they were.
C15_Filters ==
    /\ FiltersAsGiven
    /\ ReadFlagsAsLastList
    /\ CatalogAsOpened

\* A SetFilter call that replaced one field's Filter and left another
\* field's Filter and an exclusion in place.
C15_Witness ==
    /\ ret.op = "SetFilter" /\ Len(fields) = 2
    /\ fields[1].Filter = Filter("=", <<97, 98>>)
    /\ fields[2].Filter = Filter("<", <<52, 50>>)
    /\ ~fields[1].Read /\ fields[2].Read
    /\ ZZ \in DOMAIN calls.filters

====
